---- MODULE Spec2Model ----
(***************************************************************************)
(* Model of crawler.py: the sequential page crawler (build_urls,           *)
(* is_html_response, file_name_for_index, crawl).                          *)
(*                                                                         *)
(* Python strings are modelled as sequences of one-character strings, so   *)
(* that formatting, joining and substring tests are computed, not assumed. *)
(* A URL template is a sequence of tokens: a one-character literal or a    *)
(* replacement field, "{n}" or "{x}".                                      *)
(***************************************************************************)
EXTENDS Integers, Sequences, FiniteSets, TLC

\* ------------------------------------------------------------------ bounds
MaxTargets == 2      \* longest page range explored by the crawl specification
MaxRuns == 2         \* number of successive runs over the same directory
FnSpread == 2        \* how far around each power of ten the counts are sampled

\* ------------------------------------------------------- string primitives
DigitChars == <<"0", "1", "2", "3", "4", "5", "6", "7", "8", "9">>

\* str(n) for n >= 0
RECURSIVE Str(_)
Str(n) == IF n < 10 THEN <<DigitChars[n + 1]>>
          ELSE Str(n \div 10) \o <<DigitChars[(n % 10) + 1]>>

\* "0" * k
RECURSIVE Zeros(_)
Zeros(k) == IF k <= 0 THEN <<>> ELSE <<"0">> \o Zeros(k - 1)

\* s.startswith(p)
StartsWith(s, p) == /\ Len(p) <= Len(s)
                    /\ SubSeq(s, 1, Len(p)) = p

\* p in s
Contains(s, p) == \E k \in 1..(Len(s) - Len(p) + 1) : SubSeq(s, k, k + Len(p) - 1) = p

UpperChars == <<"A", "B", "C", "D", "E", "F", "G", "H", "I", "J", "K", "L", "M",
                "N", "O", "P", "Q", "R", "S", "T", "U", "V", "W", "X", "Y", "Z">>
LowerChars == <<"a", "b", "c", "d", "e", "f", "g", "h", "i", "j", "k", "l", "m",
                "n", "o", "p", "q", "r", "s", "t", "u", "v", "w", "x", "y", "z">>

LowerChar(c) == IF \E k \in 1..26 : UpperChars[k] = c
                THEN LowerChars[CHOOSE k \in 1..26 : UpperChars[k] = c]
                ELSE c

\* s.lower()
Lower(s) == [k \in 1..Len(s) |-> LowerChar(s[k])]

\* sep.join(lines)
RECURSIVE Join(_, _)
Join(sep, lines) == IF Len(lines) = 0 THEN <<>>
                    ELSE IF Len(lines) = 1 THEN lines[1]
                    ELSE lines[1] \o sep \o Join(sep, Tail(lines))

\* os.path.join(dir, name) for a relative name
path_join(dir, name) == dir \o <<"/">> \o name

\* ------------------------------------------------------------- build_urls
KeyError == <<"KeyError">>

\* base_url.format(n=n): every "{n}" field becomes str(n); a field with
\* another name raises KeyError.
RECURSIVE format(_, _)
format(base_url, n) ==
    IF Len(base_url) = 0 THEN <<>>
    ELSE IF Head(base_url) = "{x}" THEN KeyError
    ELSE LET rest == format(Tail(base_url), n)
             this == IF Head(base_url) = "{n}" THEN Str(n) ELSE <<Head(base_url)>>
         IN  IF rest = KeyError THEN KeyError ELSE this \o rest

\* Mutation: the last page of the range is left out.
RECURSIVE range_short(_, _)
range_short(a, b) == IF a >= b - 1 THEN <<>> ELSE <<a>> \o range_short(a + 1, b)

\* range(a, b)
RECURSIVE range(_, _)
range(a, b) == IF a >= b THEN <<>> ELSE <<a>> \o range(a + 1, b)

\* The list of (n, url) pairs, or KeyError when a format call raises.
build_urls(base_url, start_page, end_page) ==
    LET ns == range(start_page, end_page + 1)
        urls == [k \in 1..Len(ns) |-> <<ns[k], format(base_url, ns[k])>>]
    IN  IF \E k \in 1..Len(ns) : urls[k][2] = KeyError THEN KeyError ELSE urls

\* ------------------------------------------------------- is_html_response
headers_get(headers, key, default) ==
    IF key \in DOMAIN headers THEN headers[key] ELSE default

TextHtml == <<"t", "e", "x", "t", "/", "h", "t", "m", "l">>
AppXhtml == <<"a", "p", "p", "l", "i", "c", "a", "t", "i", "o", "n", "/",
              "x", "h", "t", "m", "l", "+", "x", "m", "l">>
TextSlash == <<"t", "e", "x", "t", "/">>

\* Mutation: the content type is not looked at.
accepts_everything(resp) == TRUE

is_html_response(resp) ==
    LET ctype == Lower(headers_get(resp.headers, "Content-Type", <<>>))
    IN  \/ Contains(ctype, TextHtml)
        \/ Contains(ctype, AppXhtml)
        \/ StartsWith(ctype, TextSlash)

\* ---------------------------------------------------- file_name_for_index
DotHtml == <<".", "h", "t", "m", "l">>

\* f"{i:0{total_digits}d}.html": str(i) left-padded with zeros to at least
\* total_digits characters.
file_name_for_index(i, total_digits) ==
    Zeros(total_digits - Len(Str(i))) \o Str(i) \o DotHtml

Max(a, b) == IF a >= b THEN a ELSE b

\* Mutation: the width does not follow the number of targets.
digits_always_four(total) == 4

\* max(4, len(str(total)))
digits_for(total) == Max(4, Len(Str(total)))

\* ------------------------------------------------------------ environment
\* Configurations explored (CrawlerConfig; delay, timeout and user agent do
\* not influence control flow and are left out).
Templates == { <<"s", "/", "{n}">>, <<"s", "/", "p">>, <<"s", "/", "{x}">> }
StartPages == {57}
OutDir == <<"d">>
IndexPath == <<"i", "x">>

Configs == { [base_url |-> t, start_page |-> s, end_page |-> s + k - 1,
              out_dir |-> OutDir, index_path |-> IndexPath] :
             t \in Templates, s \in StartPages, k \in 0..MaxTargets }

\* What the remote server can give for the text of a page.
Page(u) == <<"<">> \o u
OldPage == <<"o">>

HtmlHeaders == "Content-Type" :> <<"T", "e", "x", "t", "/", "H", "T", "M", "L", ";", "q">>
PdfHeaders == "Content-Type" :> <<"a", "p", "p", "l", "i", "c", "a", "t", "i", "o", "n", "/", "p", "d", "f">>
NoHeaders == <<>>

NoResp == [err |-> TRUE, status_code |-> 0, headers |-> NoHeaders, text |-> <<>>]

\* Retry(total=5, status_forcelist=(429, 500, 502, 503, 504)) of make_session
RetryTotal == 5
status_forcelist == {429, 500, 502, 503, 504}

\* What one HTTP attempt for a URL can come back with: a connection-level
\* error, or a response with a status, headers and text.
Answers(u) ==
    { NoResp,
      [err |-> FALSE, status_code |-> 404, headers |-> HtmlHeaders, text |-> Page(u)],
      [err |-> FALSE, status_code |-> 503, headers |-> HtmlHeaders, text |-> Page(u)],
      [err |-> FALSE, status_code |-> 200, headers |-> PdfHeaders, text |-> Page(u)],
      [err |-> FALSE, status_code |-> 200, headers |-> HtmlHeaders, text |-> Page(u)],
      [err |-> FALSE, status_code |-> 200, headers |-> HtmlHeaders, text |-> <<>>] }

\* ------------------------------------------------------------------ state
VARIABLES
    config,       \* the CrawlerConfig of every run
    fs,           \* the file system: path -> text of the file at that path
    server,       \* url -> the answer the server gives for it (fixed once given)
    run,          \* number of the current run of crawl
    pc,           \* position of the current run inside crawl
    exit_code,    \* process exit status, -1 while running
    targets, total, digits, index_lines, downloaded, idx, resp,  \* locals of crawl
    attempts,     \* HTTP attempts made so far by the session.get in progress
    wire,         \* what the latest of these attempts came back with
    requests,     \* history: indices for which session.get was called, this run
    outcome,      \* history: idx -> how the target ended, this run
    slept,        \* history: indices after which time.sleep was called, this run
    fs0,          \* history: the file system when this run started
    prev          \* history: how the previous run ended

vars == <<config, fs, server, run, pc, exit_code, targets, total, digits,
          index_lines, downloaded, idx, resp, attempts, wire,
          requests, outcome, slept, fs0, prev>>

locals == <<targets, total, digits, index_lines, downloaded, idx, resp>>
session == <<attempts, wire>>
history == <<requests, outcome, slept, fs0, prev>>

NoPrev == [pc |-> "none", manifest |-> <<>>, unsaved |-> {}]

\* Number of targets of a configuration, for laying out the initial directory.
PlannedTotal(c) == Max(0, c.end_page - c.start_page + 1)
PlannedPath(c, i) ==
    path_join(c.out_dir, file_name_for_index(i, digits_for(PlannedTotal(c))))

\* Each planned page file is absent, empty or left non-empty by an earlier
\* session; the manifest does not exist yet.
InitialDirs(c) ==
    LET n == PlannedTotal(c)
        states == [1..n -> {"absent", "empty", "old"}]
    IN  { [p \in { PlannedPath(c, i) : i \in { j \in 1..n : st[j] # "absent" } } |->
             LET i == CHOOSE j \in 1..n : PlannedPath(c, j) = p
             IN  IF st[i] = "empty" THEN <<>> ELSE OldPage] : st \in states }

InitLocals ==
    /\ targets = <<>>
    /\ total = 0
    /\ digits = 0
    /\ index_lines = <<>>
    /\ downloaded = 0
    /\ idx = 0
    /\ resp = NoResp
    /\ attempts = 0
    /\ wire = NoResp

Init ==
    /\ config \in Configs
    /\ fs \in InitialDirs(config)
    /\ server = <<>>
    /\ run = 1
    /\ pc = "start"
    /\ exit_code = -1
    /\ InitLocals
    /\ requests = <<>>
    /\ outcome = <<>>
    /\ slept = {}
    /\ fs0 = fs
    /\ prev = NoPrev

\* ------------------------------------------------------------------ crawl
\* Where control goes after target i: the next iteration or past the loop.
LoopPc(i, n) == IF i <= n THEN "loop" ELSE "flush"

\* for idx, (n, url) in enumerate(targets, start=1)
url == targets[idx][2]
fname == file_name_for_index(idx, digits)
out_path == path_join(config.out_dir, fname)
line == fname \o <<"\t">> \o url

\* Mutation: the size of the file is not looked at.
already_downloaded_any_size(files, p) == p \in DOMAIN files

\* Mutation: nothing on disk is trusted, every target is fetched again.
already_downloaded_never(files, p) == FALSE

\* os.path.exists(p) and os.path.getsize(p) > 0
already_downloaded(files, p) == p \in DOMAIN files /\ Len(files[p]) > 0

\* open(p, "w") followed by write(text)
write_text(files, p, text) == [q \in DOMAIN files \cup {p} |-> IF q = p THEN text ELSE files[q]]

build_urls_raises(base_url, start_page, end_page) ==
    LET ns == range(start_page, end_page + 1)
    IN  \E k \in 1..Len(ns) : format(base_url, ns[k]) = KeyError

\* Lines 134-148: directory, session, target list, counters.
crawl_begin ==
    /\ pc = "start"
    /\ ~build_urls_raises(config.base_url, config.start_page, config.end_page)
    /\ targets' = build_urls(config.base_url, config.start_page, config.end_page)
    /\ total' = Len(targets')
    /\ digits' = digits_for(total')
    /\ index_lines' = <<>>
    /\ downloaded' = 0
    /\ idx' = 1
    /\ pc' = LoopPc(1, total')
    /\ UNCHANGED <<config, session, fs, server, run, exit_code, resp, history>>

\* Line 139 when str.format raises: the exception leaves crawl.
crawl_begin_raises ==
    /\ pc = "start"
    /\ build_urls_raises(config.base_url, config.start_page, config.end_page)
    /\ pc' = "raised"
    /\ exit_code' = 1
    /\ UNCHANGED <<config, session, fs, server, run, locals, history>>

\* Mutation: the delay is applied after a skipped target too.
skip_existing_then_sleep ==
    /\ pc = "loop"
    /\ already_downloaded(fs, out_path)
    /\ index_lines' = Append(index_lines, line)
    /\ downloaded' = downloaded + 1
    /\ outcome' = outcome @@ (idx :> "Skipped")
    /\ slept' = slept \cup {idx}
    /\ idx' = idx + 1
    /\ pc' = LoopPc(idx + 1, total)
    /\ UNCHANGED <<config, session, fs, server, run, exit_code, targets, total, digits, resp,
                   requests, fs0, prev>>

\* Lines 156-160: the file is there, record it and go on.
skip_existing ==
    /\ pc = "loop"
    /\ already_downloaded(fs, out_path)
    /\ index_lines' = Append(index_lines, line)
    /\ downloaded' = downloaded + 1
    /\ outcome' = outcome @@ (idx :> "Skipped")
    /\ idx' = idx + 1
    /\ pc' = LoopPc(idx + 1, total)
    /\ UNCHANGED <<config, session, fs, server, run, exit_code, targets, total, digits, resp,
                   requests, slept, fs0, prev>>

\* Line 163: session.get is called and the request is in flight.
send_request ==
    /\ pc = "loop"
    /\ ~already_downloaded(fs, out_path)
    /\ requests' = Append(requests, idx)
    /\ attempts' = 1
    /\ wire' = NoResp
    /\ pc' = "get"
    /\ UNCHANGED <<config, fs, server, run, exit_code, locals, outcome, slept, fs0, prev>>

\* The answers the server may give now: the one it gave before, or any.
ServerAnswers(u) == IF u \in DOMAIN server THEN {server[u]} ELSE Answers(u)

\* Mutation: the force list is not consulted, any status is retried.
retries_left_any_status(a, made) == made - 1 < RetryTotal

\* Retry.is_retry / is_exhausted: a response with a status of the force list
\* is retried while fewer than total retries were made.
retries_left(a, made) == a.status_code \in status_forcelist /\ made - 1 < RetryTotal

\* HTTPAdapter with max_retries: the attempt came back with a status of the
\* force list and the request is sent again.
retry_status ==
    /\ pc = "get"
    /\ \E a \in ServerAnswers(url) :
          /\ ~a.err
          /\ retries_left(a, attempts)
          /\ wire' = a
    /\ attempts' = attempts + 1
    /\ UNCHANGED <<config, fs, server, run, pc, exit_code, locals, history>>

\* Mutation: a target that is given up is recorded in the manifest all the same.
GiveUp_recorded(a, how) ==
    /\ server' = server @@ (url :> a)
    /\ outcome' = outcome @@ (idx :> how)
    /\ index_lines' = Append(index_lines, line)
    /\ idx' = idx + 1
    /\ pc' = LoopPc(idx + 1, total)
    /\ attempts' = 0
    /\ wire' = NoResp
    /\ UNCHANGED <<config, fs, run, exit_code, targets, total, digits,
                   downloaded, resp, requests, slept, fs0, prev>>

\* Mutation: a target that is given up is tried again by the loop.
GiveUp_again(a, how) ==
    /\ server' = server @@ (url :> a)
    /\ outcome' = outcome @@ (idx :> how)
    /\ pc' = "loop"
    /\ attempts' = 0
    /\ wire' = NoResp
    /\ UNCHANGED <<config, fs, run, exit_code, targets, total, digits, index_lines,
                   downloaded, idx, resp, requests, slept, fs0, prev>>

\* Target idx ends without a file: on to the next one.
GiveUp(a, how) ==
    /\ server' = server @@ (url :> a)
    /\ outcome' = outcome @@ (idx :> how)
    /\ idx' = idx + 1
    /\ pc' = LoopPc(idx + 1, total)
    /\ attempts' = 0
    /\ wire' = NoResp
    /\ UNCHANGED <<config, fs, run, exit_code, targets, total, digits, index_lines,
                   downloaded, resp, requests, slept, fs0, prev>>

\* Lines 164-167: session.get raised RequestException.
request_fails ==
    /\ pc = "get"
    /\ \E a \in ServerAnswers(url) :
          /\ a.err
          /\ GiveUp(a, "RequestFailed")

\* Lines 170-172: a response whose status is not 200.
bad_status ==
    /\ pc = "get"
    /\ \E a \in ServerAnswers(url) :
          /\ ~a.err
          /\ a.status_code # 200
          /\ ~retries_left(a, attempts)
          /\ GiveUp(a, "BadStatus")

\* Lines 175-177: status 200 but not a text page.
not_html ==
    /\ pc = "get"
    /\ \E a \in ServerAnswers(url) :
          /\ ~a.err
          /\ a.status_code = 200
          /\ ~is_html_response(a)
          /\ GiveUp(a, "Rejected")

\* Lines 180-182: the response is accepted and open(out_path, "w") creates
\* or truncates the file.
open_file ==
    /\ pc = "get"
    /\ \E a \in ServerAnswers(url) :
          /\ ~a.err
          /\ a.status_code = 200
          /\ is_html_response(a)
          /\ server' = server @@ (url :> a)
          /\ resp' = a
    /\ fs' = write_text(fs, out_path, <<>>)
    /\ pc' = "write"
    /\ attempts' = 0
    /\ wire' = NoResp
    /\ UNCHANGED <<config, run, exit_code, targets, total, digits, index_lines,
                   downloaded, idx, history>>

\* Line 182 when open raises OSError: nothing catches it.
open_raises ==
    /\ pc = "get"
    /\ \E a \in ServerAnswers(url) :
          /\ ~a.err
          /\ a.status_code = 200
          /\ is_html_response(a)
          /\ server' = server @@ (url :> a)
          /\ resp' = a
    /\ outcome' = outcome @@ (idx :> "WriteFailed")
    /\ pc' = "raised"
    /\ exit_code' = 1
    /\ attempts' = 0
    /\ wire' = NoResp
    /\ UNCHANGED <<config, fs, run, targets, total, digits, index_lines,
                   downloaded, idx, requests, slept, fs0, prev>>

\* Mutation: index.txt is rewritten after every saved page.
write_file_flushing ==
    /\ pc = "write"
    /\ index_lines' = Append(index_lines, line)
    /\ fs' = write_text(write_text(fs, out_path, resp.text), config.index_path,
                        Join(<<"\n">>, index_lines') \o <<"\n">>)
    /\ downloaded' = downloaded + 1
    /\ outcome' = outcome @@ (idx :> "Saved")
    /\ pc' = "sleep"
    /\ UNCHANGED <<config, session, server, run, exit_code, targets, total, digits, idx, resp,
                   requests, slept, fs0, prev>>

\* Mutation: the saved page is recorded but not counted.
write_file_uncounted ==
    /\ pc = "write"
    /\ fs' = write_text(fs, out_path, resp.text)
    /\ index_lines' = Append(index_lines, line)
    /\ outcome' = outcome @@ (idx :> "Saved")
    /\ pc' = "sleep"
    /\ UNCHANGED <<config, session, server, run, exit_code, targets, total, digits, idx, resp,
                   downloaded, requests, slept, fs0, prev>>

\* Lines 183-188: the text is written, the file closed, the page recorded.
write_file ==
    /\ pc = "write"
    /\ fs' = write_text(fs, out_path, resp.text)
    /\ index_lines' = Append(index_lines, line)
    /\ downloaded' = downloaded + 1
    /\ outcome' = outcome @@ (idx :> "Saved")
    /\ pc' = "sleep"
    /\ UNCHANGED <<config, session, server, run, exit_code, targets, total, digits, idx, resp,
                   requests, slept, fs0, prev>>

\* Line 183 when write (or the closing flush) raises OSError: the file keeps
\* nothing or a first part of the text, and nothing catches the exception.
write_raises ==
    /\ pc = "write"
    /\ \E k \in {0, 1} :
          /\ k < Len(resp.text) \/ k = 0
          /\ fs' = write_text(fs, out_path, SubSeq(resp.text, 1, k))
    /\ outcome' = outcome @@ (idx :> "WriteFailed")
    /\ pc' = "raised"
    /\ exit_code' = 1
    /\ UNCHANGED <<config, session, server, run, locals, requests, slept, fs0, prev>>

\* Line 191: time.sleep(config.delay_sec), then the next iteration.
sleep_delay ==
    /\ pc = "sleep"
    /\ slept' = slept \cup {idx}
    /\ idx' = idx + 1
    /\ pc' = LoopPc(idx + 1, total)
    /\ UNCHANGED <<config, session, fs, server, run, exit_code, targets, total, digits,
                   index_lines, downloaded, resp, requests, outcome, fs0, prev>>

\* Lines 194-195: index.txt is written in one go.
write_manifest ==
    /\ pc = "flush"
    /\ fs' = write_text(fs, config.index_path, Join(<<"\n">>, index_lines) \o <<"\n">>)
    /\ pc' = "written"
    /\ UNCHANGED <<config, session, server, run, exit_code, locals, history>>

\* Lines 194-195 when open or write raises OSError: index.txt is untouched
\* (open failed) or left empty (write failed).
manifest_raises ==
    /\ pc = "flush"
    /\ \/ fs' = fs
       \/ fs' = write_text(fs, config.index_path, <<>>)
    /\ pc' = "raised"
    /\ exit_code' = 1
    /\ UNCHANGED <<config, session, server, run, locals, history>>

\* Mutation: <= instead of <.
incomplete_or_equal(d, t) == d <= t

\* Line 200: downloaded < total
incomplete(d, t) == d < t

\* Line 200, condition false: crawl returns and the process ends normally.
return_complete ==
    /\ pc = "written"
    /\ ~incomplete(downloaded, total)
    /\ pc' = "returned"
    /\ exit_code' = 0
    /\ UNCHANGED <<config, session, fs, server, run, locals, history>>

\* Lines 200-202: sys.exit(2).
exit_incomplete ==
    /\ pc = "written"
    /\ incomplete(downloaded, total)
    /\ pc' = "exited"
    /\ exit_code' = 2
    /\ UNCHANGED <<config, session, fs, server, run, locals, history>>

\* The process is terminated from outside (SIGKILL) while crawl is running.
\* A page file that was open keeps nothing or a first part of the text; a
\* manifest about to be written is untouched or left empty.
kill ==
    /\ pc \in {"loop", "get", "write", "sleep", "flush", "written"}
    /\ \/ fs' = fs
       \/ /\ pc = "write"
          /\ 1 < Len(resp.text)
          /\ fs' = write_text(fs, out_path, SubSeq(resp.text, 1, 1))
       \/ /\ pc = "flush"
          /\ fs' = write_text(fs, config.index_path, <<>>)
    /\ pc' = "killed"
    /\ exit_code' = 137
    /\ attempts' = 0
    /\ wire' = NoResp
    /\ UNCHANGED <<config, server, run, locals, history>>

Ended == pc \in {"returned", "exited", "raised", "killed"}

ManifestText(files) == IF IndexPath \in DOMAIN files THEN files[IndexPath] ELSE <<>>

\* Lines 252-254 run again: the script is started once more with the same
\* arguments over the same directory.
\* Target i ended without a non-empty file: its fetch failed or was
\* refused, or the text saved was empty.
left_unsaved(i) ==
    \/ outcome[i] \in {"RequestFailed", "BadStatus", "Rejected"}
    \/ /\ outcome[i] = "Saved"
       /\ server[targets[i][2]].text = <<>>

rerun ==
    /\ Ended
    /\ run < MaxRuns
    /\ run' = run + 1
    /\ pc' = "start"
    /\ exit_code' = -1
    /\ targets' = <<>>
    /\ total' = 0
    /\ digits' = 0
    /\ index_lines' = <<>>
    /\ downloaded' = 0
    /\ idx' = 0
    /\ resp' = NoResp
    /\ attempts' = 0
    /\ wire' = NoResp
    /\ requests' = <<>>
    /\ outcome' = <<>>
    /\ slept' = {}
    /\ fs0' = fs
    /\ prev' = IF pc \in {"returned", "exited"}
               THEN [pc |-> pc, manifest |-> ManifestText(fs),
                     unsaved |-> { i \in DOMAIN outcome : left_unsaved(i) }]
               ELSE [pc |-> pc, manifest |-> <<>>, unsaved |-> {}]
    /\ UNCHANGED <<config, fs, server>>

Next ==
    \/ crawl_begin
    \/ crawl_begin_raises
    \/ skip_existing
    \/ send_request
    \/ retry_status
    \/ request_fails
    \/ bad_status
    \/ not_html
    \/ open_file
    \/ open_raises
    \/ write_file
    \/ write_raises
    \/ sleep_delay
    \/ write_manifest
    \/ manifest_raises
    \/ return_complete
    \/ exit_incomplete
    \/ kill
    \/ rerun

Spec == Init /\ [][Next]_vars

\* ------------------------------------------- file names for large counts
\* The naming of lines 140-142 and 150-152 on its own, for target counts far
\* beyond what the crawl specification walks through.
RECURSIVE Pow10(_)
Pow10(k) == IF k = 0 THEN 1 ELSE 10 * Pow10(k - 1)

NearPowers == { n \in UNION { (Pow10(k) - FnSpread)..(Pow10(k) + FnSpread) : k \in 0..5 } : n >= 0 }
FnTotals == NearPowers \cup {50, 12345}
FnIndices(n) == { i \in NearPowers \cup ((n - FnSpread)..n) : 1 <= i /\ i <= n }

InitFn ==
    /\ config = [base_url |-> <<"s", "/", "{n}">>, start_page |-> 1, end_page |-> 1,
                 out_dir |-> OutDir, index_path |-> IndexPath]
    /\ fs = <<>>
    /\ server = <<>>
    /\ run = 1
    /\ pc = "count"
    /\ exit_code = -1
    /\ InitLocals
    /\ requests = <<>>
    /\ outcome = <<>>
    /\ slept = {}
    /\ fs0 = fs
    /\ prev = NoPrev

\* Lines 140-142 for a list of n targets.
count_targets ==
    /\ pc = "count"
    /\ \E n \in FnTotals :
          /\ total' = n
          /\ digits' = digits_for(n)
    /\ pc' = "name"
    /\ UNCHANGED <<config, session, fs, server, run, exit_code, targets, index_lines, downloaded,
                   idx, resp, history>>

\* Lines 150-152 at some iteration idx of the loop.
name_index ==
    /\ pc \in {"name", "named"}
    /\ \E i \in FnIndices(total) : idx' = i
    /\ pc' = "named"
    /\ UNCHANGED <<config, session, fs, server, run, exit_code, targets, total, digits,
                   index_lines, downloaded, resp, history>>

NextFn ==
    \/ count_targets
    \/ name_index

SpecFn == InitFn /\ [][NextFn]_vars

\* ---------------------------------------------------------------------
\* is_html_response on its own: a response whose Content-Type header is
\* absent, or is a media type with or without a parameter, written in either
\* case, is handed to the function and the answer is kept in pc.

UpperChar(c) == IF \E k \in 1..26 : LowerChars[k] = c
                THEN UpperChars[CHOOSE k \in 1..26 : LowerChars[k] = c]
                ELSE c

Upper(s) == [k \in 1..Len(s) |-> UpperChar(s[k])]

GateTypes ==
    { <<"t", "e", "x", "t", "/", "h", "t", "m", "l">>,
      <<"a", "p", "p", "l", "i", "c", "a", "t", "i", "o", "n", "/", "x", "h", "t", "m", "l", "+", "x", "m", "l">>,
      <<"t", "e", "x", "t", "/", "p", "l", "a", "i", "n">>,
      <<"t", "e", "x", "t", "/", "c", "s", "s">>,
      <<"a", "p", "p", "l", "i", "c", "a", "t", "i", "o", "n", "/", "p", "d", "f">>,
      <<"a", "p", "p", "l", "i", "c", "a", "t", "i", "o", "n", "/", "j", "s", "o", "n">>,
      <<"i", "m", "a", "g", "e", "/", "p", "n", "g">>,
      <<"m", "u", "l", "t", "i", "p", "a", "r", "t", "/", "r", "e", "l", "a", "t", "e", "d">>,
      <<"t", "e", "x", "t">>,
      <<>> }

GateParams ==
    { <<>>,
      <<";", " ", "c", "h", "a", "r", "s", "e", "t", "=", "u", "t", "f", "-", "8">>,
      <<";", " ", "t", "y", "p", "e", "=", "\"", "t", "e", "x", "t", "/", "h", "t", "m", "l", "\"">>,
      <<";", " ", "x", "=", "a", "p", "p", "l", "i", "c", "a", "t", "i", "o", "n", "/", "x", "h", "t", "m", "l", "+", "x", "m", "l">> }

GateValues == { t \o p : t \in GateTypes, p \in GateParams }

GateHeaders ==
    {NoHeaders} \cup { "Content-Type" :> v : v \in GateValues }
                \cup { "Content-Type" :> Upper(v) : v \in GateValues }

InitGate ==
    /\ config = [base_url |-> <<"s", "/", "{n}">>, start_page |-> 1, end_page |-> 1,
                 out_dir |-> OutDir, index_path |-> IndexPath]
    /\ fs = <<>>
    /\ server = <<>>
    /\ run = 1
    /\ pc = "gate"
    /\ exit_code = -1
    /\ targets = <<>>
    /\ total = 0
    /\ digits = 0
    /\ index_lines = <<>>
    /\ downloaded = 0
    /\ idx = 0
    /\ \E h \in GateHeaders :
          resp = [err |-> FALSE, status_code |-> 200, headers |-> h, text |-> <<"<">>]
    /\ attempts = 0
    /\ wire = NoResp
    /\ requests = <<>>
    /\ outcome = <<>>
    /\ slept = {}
    /\ fs0 = fs
    /\ prev = NoPrev

\* Lines 97-103 returning True.
gate_accepts ==
    /\ pc = "gate"
    /\ is_html_response(resp)
    /\ pc' = "accepted"
    /\ UNCHANGED <<config, fs, server, run, exit_code, locals, session, history>>

\* Lines 97-103 returning False.
gate_rejects ==
    /\ pc = "gate"
    /\ ~is_html_response(resp)
    /\ pc' = "rejected"
    /\ UNCHANGED <<config, fs, server, run, exit_code, locals, session, history>>

NextGate ==
    \/ gate_accepts
    \/ gate_rejects

SpecGate == InitGate /\ [][NextGate]_vars

TypeOK ==
    /\ run \in 1..MaxRuns
    /\ pc \in {"start", "loop", "get", "write", "sleep", "flush", "written",
               "returned", "exited", "raised", "killed", "count", "name", "named",
               "gate", "accepted", "rejected"}
    /\ exit_code \in {-1, 0, 1, 2, 137}
    /\ downloaded \in 0..MaxTargets
    /\ idx \in Nat

\* ------------------------------------------------- vocabulary of the claims
Tab == <<"\t">>

\* s.split(c)
RECURSIVE Split(_, _)
Split(s, c) ==
    IF \A k \in 1..Len(s) : s[k] # c THEN <<s>>
    ELSE LET k == CHOOSE j \in 1..Len(s) : s[j] = c /\ \A m \in 1..(j - 1) : s[m] # c
         IN  <<SubSeq(s, 1, k - 1)>> \o Split(SubSeq(s, k + 1, Len(s)), c)

NonBlank(l) == Len(l) > 0

\* The (filename, url) records a reader finds in a manifest text: one per
\* non-blank line, cut at the first tab.
ManifestEntries(text) ==
    LET ls == SelectSeq(Split(text, "\n"), NonBlank)
    IN  [k \in 1..Len(ls) |->
            LET cut == Split(ls[k], "\t")
            IN  <<cut[1], Join(Tab, Tail(cut))>>]

\* crawl has built its target list in this run
Began == idx >= 1
\* crawl got past the loop and wrote the manifest
Finished == pc \in {"written", "returned", "exited"}

NameOf(i) == file_name_for_index(i, digits)
PathOf(i) == path_join(OutDir, NameOf(i))
UrlOf(i) == targets[i][2]

Requested(i) == \E k \in 1..Len(requests) : requests[k] = i
Kept(i) == i \in DOMAIN outcome /\ outcome[i] \in {"Skipped", "Saved"}
PresentAtStart(i) == PathOf(i) \in DOMAIN fs0 /\ Len(fs0[PathOf(i)]) > 0

AllIndices == [k \in 1..total |-> k]

\* The indices that satisfy Keep, ascending.
IndicesOf(Keep(_)) == SelectSeq(AllIndices, Keep)

\* The entries of the targets that satisfy Keep, in target order.
EntriesOf(Keep(_)) ==
    LET ks == SelectSeq(AllIndices, Keep)
    IN  [j \in 1..Len(ks) |-> <<NameOf(ks[j]), UrlOf(ks[j])>>]

Always(i) == TRUE
MissingAtStart(i) == ~PresentAtStart(i)

KeptCount == Cardinality({ i \in DOMAIN outcome : outcome[i] \in {"Skipped", "Saved"} })

\* C1: a target whose file is there with size > 0 is never requested, gets a
\* manifest entry and is counted; every other target reached is requested;
\* and when every fetch of a finished run succeeded, the requests are exactly
\* the missing indices, ascending, and the manifest has all N entries in order.
C1_Resumable ==
    Began =>
      /\ \A i \in 1..total :
            /\ PresentAtStart(i) => ~Requested(i)
            /\ (PresentAtStart(i) /\ i \in DOMAIN outcome) =>
                   /\ outcome[i] = "Skipped"
                   /\ \E k \in 1..Len(index_lines) : index_lines[k] = NameOf(i) \o Tab \o UrlOf(i)
            /\ (~PresentAtStart(i) /\ i \in DOMAIN outcome) => Requested(i)
      /\ downloaded = KeptCount
      /\ (Finished /\ \A i \in 1..total : Kept(i)) =>
            /\ requests = IndicesOf(MissingAtStart)
            /\ ManifestEntries(ManifestText(fs)) = EntriesOf(Always)

\* C1 witness: a finished run over two targets of which only the first was
\* there, that requested exactly the second and recorded both.
C1_Witness ==
    /\ Finished
    /\ total = 2
    /\ PresentAtStart(1) /\ ~PresentAtStart(2)
    /\ requests = <<2>>
    /\ Len(ManifestEntries(ManifestText(fs))) = 2

\* The targets the previous run left without a non-empty file.
LeftUnsaved(i) == i \in prev.unsaved

PrevFinished == prev.pc \in {"returned", "exited"}

\* C2 as stated: a second run after a finished first run makes no request
\* and ends with the same manifest.
C2_Original ==
    (run = 2 /\ PrevFinished) =>
        /\ requests = <<>>
        /\ Finished => ManifestText(fs) = prev.manifest

\* C2 amended: a second run after a finished first run ends with the same
\* manifest, and requests only the targets the first run left without a
\* non-empty file (all of them, in order, once it has finished); when the
\* first run left a non-empty file for every target it requests nothing.
C2_Idempotent ==
    (run = 2 /\ PrevFinished /\ Began) =>
        /\ \A k \in 1..Len(requests) : LeftUnsaved(requests[k])
        /\ Finished =>
              /\ ManifestText(fs) = prev.manifest
              /\ requests = IndicesOf(LeftUnsaved)
        /\ (\A i \in 1..total : ~LeftUnsaved(i)) => requests = <<>>

\* C2 witness: a second run has finished without any request after a first
\* run that fetched and saved pages.
C2_Witness ==
    /\ run = 2
    /\ PrevFinished
    /\ Finished
    /\ total >= 2
    /\ requests = <<>>
    /\ \E i \in 1..total : /\ PathOf(i) \in DOMAIN fs0
                            /\ fs0[PathOf(i)] = Page(UrlOf(i))
    /\ Len(ManifestEntries(ManifestText(fs))) = total

\* C3: when the manifest has been written, its entries are exactly those of
\* the targets that were skipped as present or saved, one each, in ascending
\* index order; a target that ended otherwise has none.
C3_ManifestEntries ==
    Finished =>
        /\ ManifestEntries(ManifestText(fs)) = EntriesOf(Kept)
        /\ \A i \in 1..total :
              ~Kept(i) => \A k \in 1..Len(ManifestEntries(ManifestText(fs))) :
                              ManifestEntries(ManifestText(fs))[k][1] # NameOf(i)

\* C3 witness: a written manifest whose only entry is that of the second
\* target, the first having been refused.
C3_Witness ==
    /\ Finished
    /\ total = 2
    /\ outcome[1] = "Rejected" /\ outcome[2] = "Saved"
    /\ Len(ManifestEntries(ManifestText(fs))) = 1
    /\ ManifestEntries(ManifestText(fs))[1] = <<NameOf(2), UrlOf(2)>>

\* session.get has come back in this step, and with what.
Handled == pc = "get" /\ pc' \notin {"get", "killed"}
AnswerGiven == server'[url]

\* The current target is dropped and the loop goes on with the next one:
\* no file touched, nothing recorded, nothing counted.
DroppedAndOn ==
    /\ fs' = fs
    /\ index_lines' = index_lines
    /\ downloaded' = downloaded
    /\ idx' = idx + 1
    /\ pc' = IF idx < total THEN "loop" ELSE "flush"

\* C4: when the fetch of a target ends in a transport failure or a status
\* other than 200, no file is written, nothing is recorded or counted, and
\* control is at the next target (or past the loop after the last one).
C4_FailureIsLocal ==
    [][(Handled /\ (AnswerGiven.err \/ AnswerGiven.status_code # 200))
          => DroppedAndOn]_vars

\* C4 witness: the second target was fetched and saved after the first had
\* failed in transport or come back with a bad status, leaving no file.
C4_Witness ==
    /\ total = 2
    /\ 2 \in DOMAIN outcome
    /\ outcome[1] \in {"RequestFailed", "BadStatus"} /\ outcome[2] = "Saved"
    /\ downloaded = 1
    /\ PathOf(1) \notin DOMAIN fs

\* C5: a 200 response declared application/pdf leaves the file system, the
\* manifest lines and the counter as they were, and the loop goes on.
C5_ContentGate ==
    [][(Handled /\ ~AnswerGiven.err /\ AnswerGiven.status_code = 200
          /\ AnswerGiven.headers = PdfHeaders)
          => DroppedAndOn]_vars

\* C5 witness: a finished run whose only target answered 200 with a pdf:
\* no file, no entry, nothing counted.
C5_Witness ==
    /\ Finished
    /\ total = 1
    /\ requests = <<1>>
    /\ server[UrlOf(1)].status_code = 200 /\ server[UrlOf(1)].headers = PdfHeaders
    /\ PathOf(1) \notin DOMAIN fs
    /\ ManifestEntries(ManifestText(fs)) = <<>>
    /\ downloaded = 0

\* C6: a run that got to its end exits with code 2 exactly when fewer
\* targets were skipped or saved than there are targets, and returns
\* normally otherwise; code 2 is given nowhere else.
C6_ExitSignal ==
    /\ pc \in {"returned", "exited"} =>
          /\ downloaded = KeptCount
          /\ total = Len(targets)
          /\ (exit_code = 2) <=> (downloaded < total)
          /\ (exit_code = 0) <=> (downloaded = total)
    /\ (exit_code = 2) => pc = "exited"
    /\ (pc = "written") => exit_code = -1

\* C6 witness: two targets of which one had a status other than 200:
\* downloaded = 1 of 2 and exit code 2.
C6_Witness ==
    /\ pc = "exited"
    /\ total = 2
    /\ downloaded = 1
    /\ Cardinality({ i \in DOMAIN outcome : outcome[i] = "BadStatus" }) = 1
    /\ exit_code = 2

Name0001 == <<"0", "0", "0", "1", ".", "h", "t", "m", "l">>

\* C7: for start <= end the target list has end - start + 1 pairs whose page
\* numbers are start, start + 1, ..., end; the loop index runs through the
\* positions 1..N without gaps, and the first target is recorded under the
\* name of index 1 whatever its page number.
C7_Sequencer ==
    (Began /\ config.start_page <= config.end_page) =>
        /\ Len(targets) = config.end_page - config.start_page + 1
        /\ total = Len(targets)
        /\ \A k \in 1..Len(targets) : targets[k][1] = config.start_page + k - 1
        /\ \A k \in 1..(Len(targets) - 1) : targets[k][1] < targets[k + 1][1]
        /\ pc \in {"loop", "get", "write", "sleep"} => idx \in 1..total
        /\ DOMAIN outcome \subseteq 1..total
        /\ \A i \in DOMAIN outcome : \A j \in 1..i : j \in DOMAIN outcome
        /\ Kept(1) => index_lines[1] = Name0001 \o Tab \o targets[1][2]

\* C7 witness: pages 57..58 give two targets, and page 57 was saved as
\* 0001.html.
C7_Witness ==
    /\ Finished
    /\ config.start_page = 57 /\ config.end_page = 58
    /\ Len(targets) = 2
    /\ targets[1][1] = 57 /\ targets[2][1] = 58
    /\ outcome[1] = "Saved"
    /\ path_join(OutDir, Name0001) \in DOMAIN fs

\* Number of decimal digits of n, by thresholds.
DigitCount(n) == CHOOSE k \in 1..7 : (k = 1 \/ Pow10(k - 1) <= n) /\ (k = 7 \/ n < Pow10(k))

\* The number a sequence of digit characters denotes.
RECURSIVE DecimalValue(_)
DecimalValue(ds) ==
    IF Len(ds) = 0 THEN 0
    ELSE 10 * DecimalValue(SubSeq(ds, 1, Len(ds) - 1))
         + (CHOOSE d \in 0..9 : DigitChars[d + 1] = ds[Len(ds)])

\* Characters of file names in code point order.
CodeOrder == <<".", "0", "1", "2", "3", "4", "5", "6", "7", "8", "9", "h", "l", "m", "t">>
Rank(c) == CHOOSE k \in 1..Len(CodeOrder) : CodeOrder[k] = c

\* a < b as strings
LexLess(a, b) ==
    \/ \E k \in 1..Len(a) :
          /\ k <= Len(b)
          /\ SubSeq(a, 1, k - 1) = SubSeq(b, 1, k - 1)
          /\ Rank(a[k]) < Rank(b[k])
    \/ Len(a) < Len(b) /\ SubSeq(b, 1, Len(a)) = a

IsDigits(ds) == \A k \in 1..Len(ds) : \E d \in 1..10 : DigitChars[d] = ds[k]

\* C8: with N targets the name of index i is i written in exactly
\* max(4, digits(N)) decimal digits followed by ".html"; names of different
\* indices differ and sort as strings the way the indices do.
C8_FileNames ==
    pc = "named" =>
        LET w == Max(4, DigitCount(total))
            name == file_name_for_index(idx, digits)
        IN  /\ Len(name) = w + 5
            /\ SubSeq(name, w + 1, w + 5) = DotHtml
            /\ IsDigits(SubSeq(name, 1, w))
            /\ DecimalValue(SubSeq(name, 1, w)) = idx
            /\ \A j \in FnIndices(total) :
                  j < idx => /\ file_name_for_index(j, digits) # name
                             /\ LexLess(file_name_for_index(j, digits), name)
                             /\ ~LexLess(name, file_name_for_index(j, digits))

\* C8 witness: the first of 12345 targets is named 00001.html.
C8_Witness ==
    /\ pc = "named"
    /\ total = 12345
    /\ idx = 1
    /\ file_name_for_index(idx, digits) = <<"0", "0", "0", "0", "1", ".", "h", "t", "m", "l">>

\* The target is recorded by this run after a request for it.
FreshlySaved(i) ==
    /\ Requested(i)
    /\ \E k \in 1..Len(index_lines) : index_lines[k] = NameOf(i) \o Tab \o UrlOf(i)

\* C9: time.sleep has been called after a target exactly when the target
\* was requested and saved by this run (the call is the step right after
\* the save, unless the process is killed first); never after a skipped,
\* failed or refused target.
C9_DelayOnlyAfterSave ==
    Began =>
        /\ \A i \in 1..total :
              (i \in slept) <=> (FreshlySaved(i) /\ ~(pc \in {"sleep", "killed"} /\ idx = i))
        /\ \A i \in DOMAIN outcome :
              outcome[i] \in {"Skipped", "RequestFailed", "BadStatus", "Rejected"} => i \notin slept
        /\ slept \subseteq 1..total

\* C9 witness: of two targets, the first skipped and the second saved, only
\* the second was followed by the delay.
C9_Witness ==
    /\ Finished
    /\ total = 2
    /\ outcome[1] = "Skipped" /\ outcome[2] = "Saved"
    /\ slept = {2}

HasPageField(t) == \E k \in 1..Len(t) : t[k] = "{n}"

\* C10 as stated: once crawl has started with start_page > end_page or a
\* template without the page field, it has failed, and no request was made.
C10_ConfigError ==
    (pc # "start" /\ (config.start_page > config.end_page \/ ~HasPageField(config.base_url))) =>
        /\ pc = "raised"
        /\ requests = <<>>

\* C11 as stated: a page whose file could not be written is not recorded and
\* not counted, and the run is not ended by it: only the manifest write may
\* end a run with an exception.
C11_WriteFailureIsLocal ==
    \A i \in DOMAIN outcome :
        outcome[i] = "WriteFailed" =>
            /\ pc # "raised"
            /\ downloaded = KeptCount
            /\ \A k \in 1..Len(index_lines) : index_lines[k] # NameOf(i) \o Tab \o UrlOf(i)

TransientStatuses == {429, 500, 502, 503, 504}

CompletePage(files, i) ==
    /\ PathOf(i) \in DOMAIN files
    /\ \/ files[PathOf(i)] = OldPage
       \/ /\ UrlOf(i) \in DOMAIN server
          /\ files[PathOf(i)] = server[UrlOf(i)].text

\* C13 as stated: a run started after the previous one was terminated skips
\* only targets whose file holds a whole page, fetches every other target it
\* reaches, and when it has recorded every target every file holds a whole
\* page.
C13_RestartSafe ==
    (run >= 2 /\ prev.pc = "killed" /\ Began) =>
        /\ \A i \in DOMAIN outcome :
              /\ outcome[i] = "Skipped" => CompletePage(fs0, i)
              /\ ~CompletePage(fs0, i) => Requested(i)
        /\ (Finished /\ \A i \in 1..total : Kept(i)) =>
              \A i \in 1..total : CompletePage(fs, i)

\* What is at the manifest path: nothing, or one text.
ManifestFile(files) == IF IndexPath \in DOMAIN files THEN <<files[IndexPath]>> ELSE <<>>

Processed(i) == i \in DOMAIN outcome

\* C14: until the loop is over the manifest on disk is what it was when the
\* run started; it changes only in the one step taken after the last target,
\* and completion is signalled only after that step, with every recorded
\* entry on disk; a run that ends in the middle of the loop leaves the
\* manifest as it was and every page it saved in place.
C14_ManifestOnce ==
    [][/\ pc \in {"start", "loop", "get", "write", "sleep", "flush"} =>
             ManifestFile(fs) = ManifestFile(fs0)
       /\ ManifestFile(fs') # ManifestFile(fs) =>
             /\ pc = "flush"
             /\ pc' \in {"written", "raised", "killed"}
             /\ \A i \in 1..total : Processed(i)
       /\ (pc' \in {"returned", "exited"} /\ pc' # pc) =>
             /\ pc = "written"
             /\ exit_code = -1
             /\ ManifestEntries(ManifestText(fs)) = EntriesOf(Kept)
             /\ fs' = fs
       /\ (pc \in {"loop", "get", "write", "sleep"} /\ pc' \in {"raised", "killed"}) =>
             /\ ManifestFile(fs') = ManifestFile(fs0)
             /\ \A i \in DOMAIN outcome :
                   outcome[i] = "Saved" =>
                       /\ PathOf(i) \in DOMAIN fs'
                       /\ fs'[PathOf(i)] = server[UrlOf(i)].text
      ]_vars

\* C14 witness: the first run was killed after saving the first of two
\* pages: the page is on disk, no manifest is.
C14_Witness ==
    /\ run = 1
    /\ pc = "killed"
    /\ total = 2
    /\ DOMAIN outcome = {1}
    /\ outcome[1] = "Saved"
    /\ fs[PathOf(1)] = Page(UrlOf(1))
    /\ IndexPath \notin DOMAIN fs

\* C15: within a run the indices requested are strictly ascending, the
\* targets that have ended are always 1..k for some k, each target ends once
\* and only when all before it have ended, a request is made only from the
\* top of the loop for the current target after all earlier ones have ended,
\* and at most one requested target has not ended yet.
C15_Sequential ==
    [][/\ \A k \in 1..(Len(requests) - 1) : requests[k] < requests[k + 1]
       /\ \A i \in DOMAIN outcome : \A j \in 1..i : Processed(j)
       /\ Cardinality({ i \in 1..total : Requested(i) /\ ~Processed(i) }) <= 1
       /\ pc = "get" => /\ requests[Len(requests)] = idx
                        /\ ~Processed(idx)
       /\ (run' = run /\ outcome' # outcome) =>
             /\ ~Processed(idx)
             /\ DOMAIN outcome' = DOMAIN outcome \cup {idx}
             /\ \A i \in DOMAIN outcome : outcome'[i] = outcome[i]
             /\ \A j \in 1..(idx - 1) : Processed(j)
       /\ (run' = run /\ requests' # requests) =>
             /\ pc = "loop"
             /\ requests' = Append(requests, idx)
             /\ \A j \in 1..(idx - 1) : Processed(j)
       /\ (run' = run /\ Began) => idx' >= idx
      ]_vars

\* C15 witness: a finished run over two targets that requested the first,
\* then the second.
C15_Witness ==
    /\ Finished
    /\ total = 2
    /\ requests = <<1, 2>>
    /\ DOMAIN outcome = {1, 2}
    /\ outcome[1] = "BadStatus" /\ outcome[2] = "Saved"

\* C17: the counter equals the number of lines collected, both are at most
\* the number of targets that have ended and at most the number of targets,
\* and within a run the counter never goes down and the lines only grow at
\* the end.
C17_CounterMatchesLines ==
    [][/\ downloaded = Len(index_lines)
       /\ downloaded <= Cardinality(DOMAIN outcome)
       /\ downloaded <= total
       /\ run' = run =>
             /\ downloaded' >= downloaded
             /\ Len(index_lines') >= Len(index_lines)
             /\ SubSeq(index_lines', 1, Len(index_lines)) = index_lines
      ]_vars

\* C17 witness: two targets have ended, one of them saved: the counter and
\* the lines stand at one.
C17_Witness ==
    /\ pc = "sleep"
    /\ total = 2
    /\ DOMAIN outcome = {1, 2}
    /\ outcome[1] = "RequestFailed" /\ outcome[2] = "Saved"
    /\ downloaded = 1
    /\ Len(index_lines) = 1

\* C18: no step removes a file or changes a page file that is not empty; a
\* step that creates or changes a file does so at the manifest path, or at
\* the path of the target being fetched, whose file was absent or empty when
\* the run started.
C18_Frame ==
    [][/\ \A p \in DOMAIN fs : p \in DOMAIN fs'
       /\ \A p \in DOMAIN fs : (p # IndexPath /\ Len(fs[p]) > 0) => fs'[p] = fs[p]
       /\ \A p \in DOMAIN fs' :
             (p \notin DOMAIN fs \/ fs'[p] # fs[p]) =>
                 \/ p = IndexPath
                 \/ /\ pc \in {"get", "write"}
                    /\ p = PathOf(idx)
                    /\ Requested(idx)
                    /\ ~PresentAtStart(idx)
      ]_vars

\* C18 witness: a finished run that left the old first page as it was and
\* saved the second.
C18_Witness ==
    /\ Finished
    /\ total = 2
    /\ PresentAtStart(1)
    /\ fs[PathOf(1)] = OldPage
    /\ outcome[2] = "Saved"
    /\ fs[PathOf(2)] = Page(UrlOf(2))

\* C19 as stated: when the manifest has been written, every entry names a
\* page file that exists with size > 0.
C19_RecordedIsPresent ==
    Finished =>
        \A k \in 1..Len(ManifestEntries(ManifestText(fs))) :
            LET p == path_join(OutDir, ManifestEntries(ManifestText(fs))[k][1])
            IN  p \in DOMAIN fs /\ Len(fs[p]) > 0

Semicolon == <<";">>

\* The text of s before its first ";".
UpToSemicolon(s) ==
    IF \E k \in 1..Len(s) : s[k] = Semicolon[1]
    THEN SubSeq(s, 1, (CHOOSE k \in 1..Len(s) :
                          /\ s[k] = Semicolon[1]
                          /\ \A j \in 1..(k - 1) : s[j] # Semicolon[1]) - 1)
    ELSE s

\* The media type a response declares: the Content-Type value before any
\* parameter, in lower case.
DeclaredType(r) == UpToSemicolon(Lower(r.headers["Content-Type"]))

IndicatesText(r) ==
    /\ "Content-Type" \in DOMAIN r.headers
    /\ \/ DeclaredType(r) = TextHtml
       \/ DeclaredType(r) = AppXhtml
       \/ StartsWith(DeclaredType(r), TextSlash)

\* C16 as stated: a response is accepted exactly when the type it declares,
\* compared without regard to case, is text/html, application/xhtml+xml or
\* a type of the text category; without a Content-Type header it is
\* rejected; nothing but the answer changes.
C16_AcceptsIffTextType ==
    /\ pc = "accepted" => IndicatesText(resp)
    /\ pc = "rejected" => ~IndicatesText(resp)
    /\ (pc \in {"accepted", "rejected"} /\ resp.headers = NoHeaders) => pc = "rejected"
    /\ pc \in {"accepted", "rejected"} => (fs = fs0 /\ requests = <<>> /\ outcome = <<>>)

====
